---- MODULE Spec2Model ----
(***************************************************************************)
(* Model of ultralytics/utils/callbacks/wb.py: the Weights & Biases        *)
(* logging callbacks and the curve resampling done by plot_curve_wandb.    *)
(*                                                                         *)
(* Numbers are exact rationals <<n, d>> (d > 0, lowest terms); floating    *)
(* point rounding error is not modelled.  Sequences are 1-based, so the    *)
(* Python index i is the TLA+ index i + 1.                                 *)
(***************************************************************************)
EXTENDS Integers, Sequences, FiniteSets, TLC

VARIABLES
    \* ---- the import guard and the module globals (wb.py lines 6-19, 158-162)
    TESTS_RUNNING,      \* ultralytics.utils.TESTS_RUNNING
    settings_wandb,     \* SETTINGS['wandb']: "True", "False" or the truthy "1"
    wandb_pkg,          \* what `import wandb` finds: "missing", "directory", "package"
    deps_ok,            \* whether `import numpy` and `import pandas` succeed
    wb,                 \* the module global wb: "None" or "wandb"
    callbacks,          \* the exported table, as the set of its keys
    processed_plots,    \* the module global _processed_plots: name -> timestamp (0: no entry)
    \* ---- the wandb client (the sink)
    run,                \* wb.run: "None" or "active"
    sink,               \* every call that reached the sink, in order
    \* ---- the trainer handed to the callbacks
    epoch,              \* trainer.epoch
    plots,              \* trainer.plots: name -> timestamp (0: not in the dictionary)
    vplots,             \* trainer.validator.plots
    best_exists,        \* trainer.best.exists()
    curves,             \* trainer.validator.metrics.curves
    curves_results,     \* trainer.validator.metrics.curves_results
    clock,              \* the trainer's clock: the latest plot timestamp given out
    \* ---- one call of plot_curve_wandb / np.interp and its outcome
    xs, ys, names, num_xs, only_mean,   \* the arguments
    grid,               \* the x argument of a direct np.interp call
    pc,                 \* "idle", "call", "returned", "raised"
    raised,             \* the exception that left the call, or "none"
    xs_log, ys_log, classes             \* the three columns as of line 92

vars == <<TESTS_RUNNING, settings_wandb, wandb_pkg, deps_ok, wb, callbacks,
          processed_plots, run, sink, epoch, plots, vplots, best_exists,
          curves, curves_results, clock, xs, ys, names, num_xs, only_mean, grid,
          pc, raised, xs_log, ys_log, classes>>

importVars  == <<TESTS_RUNNING, settings_wandb, wandb_pkg, deps_ok, wb, callbacks>>
trainerVars == <<epoch, plots, vplots, best_exists, curves, curves_results,
                 clock>>
callVars    == <<xs, ys, names, num_xs, only_mean, grid, pc, raised,
                 xs_log, ys_log, classes>>

----------------------------------------------------------------------------
(* Bounds of the model.                                                    *)

MaxLen     == 3     \* points of a curve (len(xs))
MaxClasses == 2     \* rows of ys
MaxNumXs   == 3     \* num_xs ranges over -1 .. MaxNumXs
MaxEpoch   == 1     \* trainer.epoch ranges over 0 .. MaxEpoch
MaxTs      == 2     \* plot timestamps range over 1 .. MaxTs
MaxSink    == 5     \* nothing more happens once the sink holds this many calls
MaxCurves  == 1     \* entries of validator.metrics.curves

----------------------------------------------------------------------------
(* Exact rational arithmetic.                                              *)

Abs(n) == IF n < 0 THEN -n ELSE n

RECURSIVE GCD(_, _)
GCD(a, b) == IF b = 0 THEN a ELSE GCD(b, a % b)

\* n/d in lowest terms with a positive denominator (d # 0)
Rat(n, d) ==
    LET g == GCD(Abs(n), Abs(d))
        s == IF d < 0 THEN -1 ELSE 1
    IN  <<(s * n) \div g, (s * d) \div g>>

RAdd(a, b) == Rat(a[1] * b[2] + b[1] * a[2], a[2] * b[2])
RSub(a, b) == Rat(a[1] * b[2] - b[1] * a[2], a[2] * b[2])
RMul(a, b) == Rat(a[1] * b[1], a[2] * b[2])
RDiv(a, b) == Rat(a[1] * b[2], a[2] * b[1])
RLt(a, b)  == a[1] * b[2] < b[1] * a[2]
RLe(a, b)  == a[1] * b[2] <= b[1] * a[2]
RInt(k)    == <<k, 1>>

RECURSIVE RSum(_)
RSum(s) == IF s = <<>> THEN RInt(0) ELSE RAdd(Head(s), RSum(Tail(s)))

Min(a, b) == IF a <= b THEN a ELSE b

----------------------------------------------------------------------------
(* The numpy calls of plot_curve_wandb.                                    *)

\* linspace as it would be with endpoint=False: num steps of delta / num
linspace_no_endpoint(start, stop, num) ==
    LET delta == RSub(stop, start)
        step  == IF num > 0 THEN RDiv(delta, RInt(num)) ELSE delta
    IN  [k \in 1..num |-> RAdd(RMul(RInt(k - 1), step), start)]

\* np.linspace(start, stop, num), num >= 0 (endpoint=True): arange(num) * step
\* + start with step = (stop - start) / (num - 1), and, when num > 1, the
\* last element overwritten by stop.  With num = 1 the only element is start.
linspace(start, stop, num) ==
    LET delta == RSub(stop, start)
        step  == IF num > 1 THEN RDiv(delta, RInt(num - 1)) ELSE delta
    IN  [k \in 1..num |->
            IF num > 1 /\ k = num
            THEN stop
            ELSE RAdd(RMul(RInt(k - 1), step), start)]

\* the column sums divided by the number of points instead of the number of rows
mean_by_points(y, n) ==
    [i \in 1..n |-> RDiv(RSum([c \in 1..Len(y) |-> y[c][i]]), RInt(n))]

\* np.mean(ys, axis=0): the column means of the C by N array ys (C >= 1)
mean_axis0(y, n) ==
    [i \in 1..n |-> RDiv(RSum([c \in 1..Len(y) |-> y[c][i]]), RInt(Len(y)))]

\* the search of np.interp: the largest j with xp[j] <= x, scanning upwards
\* from j (xp increasing, xp[1] <= x)
RECURSIVE bracket(_, _, _)
bracket(x, xp, j) ==
    IF j < Len(xp) /\ RLe(xp[j + 1], x) THEN bracket(x, xp, j + 1) ELSE j

\* interpolation that follows the end segments beyond the curve instead of
\* clamping to the boundary values
interp1_extrapolate(x, xp, fp) ==
    IF Len(xp) = 1 THEN fp[1]
    ELSE LET k == IF RLt(x, xp[1]) THEN 1 ELSE bracket(x, xp, 1)
             j == IF k = Len(xp) THEN k - 1 ELSE k
             slope == RDiv(RSub(fp[j + 1], fp[j]), RSub(xp[j + 1], xp[j]))
         IN  RAdd(RMul(slope, RSub(x, xp[j])), fp[j])

\* np.interp for one x (left and right default to fp[0] and fp[-1])
interp1(x, xp, fp) ==
    IF RLt(xp[Len(xp)], x) THEN fp[Len(fp)]
    ELSE IF RLt(x, xp[1]) THEN fp[1]
    ELSE LET j == bracket(x, xp, 1) IN
         IF j = Len(xp) \/ xp[j] = x THEN fp[j]
         ELSE LET slope == RDiv(RSub(fp[j + 1], fp[j]), RSub(xp[j + 1], xp[j]))
              IN  RAdd(RMul(slope, RSub(x, xp[j])), fp[j])

\* np.interp(x, xp, fp) for non-empty xp with len(fp) = len(xp)
np_interp(x, xp, fp) == [k \in 1..Len(x) |-> interp1(x[k], xp, fp)]

\* [v] * n
repeat(v, n) == [k \in 1..n |-> v]

RECURSIVE concat(_)
concat(ss) == IF ss = <<>> THEN <<>> ELSE Head(ss) \o concat(Tail(ss))

----------------------------------------------------------------------------
(* create_custom_wandb_metric and plot_curve_wandb.                        *)

NumXsDefault == 100

\* round(3) of one number: the nearest multiple of 1/1000, ties to even
round3(r) ==
    LET n   == r[1] * 1000
        q   == n \div r[2]
        rem == n - q * r[2]
        up  == 2 * rem > r[2] \/ (2 * rem = r[2] /\ q % 2 = 1)
    IN  Rat(IF up THEN q + 1 ELSE q, 1000)

\* the wandb table: DataFrame({'class': classes, 'y': ys, 'x': xs}).round(3)
\* under the fields and string fields of the plot
create_custom_wandb_metric(x_col, y_col, class_col, title, x_axis_title, y_axis_title) ==
    [class |-> class_col,
     y     |-> [k \in 1..Len(y_col) |-> round3(y_col[k])],
     x     |-> [k \in 1..Len(x_col) |-> round3(x_col[k])],
     title |-> title,
     x_axis_title |-> x_axis_title,
     y_axis_title |-> y_axis_title]

\* one call that reached the sink
Entry(call, kind, key, step, data) ==
    [call |-> call, kind |-> kind, key |-> key, step |-> step, data |-> data]

NoStep == -1    \* a call made without a step argument

\* lines 85-91 for the classes i .. C, on the columns built so far; names[i]
\* on a list that is too short raises IndexError
RECURSIVE per_class(_, _, _, _, _, _)
per_class(i, x, y, nm, xs_new, cols) ==
    IF i > Len(y) THEN cols
    ELSE IF i > Len(nm) THEN [cols EXCEPT !.raised = "IndexError"]
    ELSE per_class(i + 1, x, y, nm, xs_new,
            [raised  |-> "none",
             xs_log  |-> cols.xs_log \o xs_new,
             ys_log  |-> cols.ys_log \o np_interp(xs_new, x, y[i]),
             classes |-> cols.classes \o repeat(nm[i], Len(xs_new))])

\* plot_curve_wandb with a check that rejects num_xs <= 0
curve_columns_positive(x, y, nm_arg, n, mean_only) ==
    LET nm == IF nm_arg = "None" THEN <<>> ELSE nm_arg
        failed(e) == [raised |-> e, xs_log |-> <<>>, ys_log |-> <<>>, classes |-> <<>>]
    IN  IF Len(x) = 0 THEN failed("IndexError")
        ELSE IF n <= 0 THEN failed("ValueError")
        ELSE LET xs_new == linspace(x[1], x[Len(x)], n)
                 cols   == [raised  |-> "none",
                            xs_log  |-> xs_new,
                            ys_log  |-> np_interp(xs_new, x, mean_axis0(y, Len(x))),
                            classes |-> repeat("mean", Len(xs_new))]
             IN  IF mean_only THEN cols
                 ELSE LET all == per_class(1, x, y, nm, xs_new, cols)
                      IN  IF all.raised = "none" THEN all ELSE failed(all.raised)

\* lines 74-92 of plot_curve_wandb: the three columns, or the exception
\* that leaves the function before wb.log is reached
curve_columns(x, y, nm_arg, n, mean_only) ==
    LET nm == IF nm_arg = "None" THEN <<>> ELSE nm_arg
        failed(e) == [raised |-> e, xs_log |-> <<>>, ys_log |-> <<>>, classes |-> <<>>]
    IN  IF Len(x) = 0 THEN failed("IndexError")           \* xs[0]
        ELSE IF n < 0 THEN failed("ValueError")           \* np.linspace
        ELSE LET xs_new == linspace(x[1], x[Len(x)], n)
                 cols   == [raised  |-> "none",
                            xs_log  |-> xs_new,
                            ys_log  |-> np_interp(xs_new, x, mean_axis0(y, Len(x))),
                            classes |-> repeat("mean", Len(xs_new))]
             IN  IF mean_only THEN cols
                 ELSE LET all == per_class(1, x, y, nm, xs_new, cols)
                      IN  IF all.raised = "none" THEN all ELSE failed(all.raised)

\* plot_curve_wandb that builds the table and does not log it
curve_log_unsent(id, title, x_axis_title, y_axis_title, cols) == << >>

\* lines 93-103: what plot_curve_wandb sends, given the columns
curve_log(id, title, x_axis_title, y_axis_title, cols) ==
    IF cols.raised = "none"
    THEN << Entry("wb.log", "table", id, NoStep,
                  create_custom_wandb_metric(cols.xs_log, cols.ys_log, cols.classes,
                                             title, x_axis_title, y_axis_title)) >>
    ELSE << >>

----------------------------------------------------------------------------
(* The import guard (lines 6-19) and the exported table (lines 158-162).   *)

EventNames == {"on_pretrain_routine_start", "on_train_epoch_end",
               "on_fit_epoch_end", "on_train_end"}

\* the guard with a truthiness test of the setting in place of `is True`
import_guard_truthy(tests_running, setting, pkg, deps) ==
    IF /\ ~tests_running
       /\ setting # "False"
       /\ pkg # "missing"
       /\ pkg = "package"
       /\ deps
    THEN "wandb" ELSE "None"

\* the value of wb after the try block: every assert and import of the block
\* must succeed, otherwise the except clause sets wb = None
import_guard(tests_running, setting, pkg, deps) ==
    IF /\ ~tests_running            \* assert not TESTS_RUNNING
       /\ setting = "True"          \* assert SETTINGS['wandb'] is True
       /\ pkg # "missing"           \* import wandb as wb
       /\ pkg = "package"           \* assert hasattr(wb, '__version__')
       /\ deps                      \* import numpy, pandas
    THEN "wandb" ELSE "None"

\* callbacks = {...} if wb else {}
callbacks_table(w) == IF w # "None" THEN EventNames ELSE {}

\* the plot files of this model: one file, which the trainer and the
\* validator may both record
PlotNames == <<"results.png">>

NoPlots == [i \in 1..Len(PlotNames) |-> 0]

\* the module as imported with the integration enabled, before any event
EnabledModule ==
    /\ TESTS_RUNNING = FALSE
    /\ settings_wandb = "True"
    /\ wandb_pkg = "package"
    /\ deps_ok = TRUE
    /\ wb = import_guard(TESTS_RUNNING, settings_wandb, wandb_pkg, deps_ok)
    /\ callbacks = callbacks_table(wb)
    /\ processed_plots = NoPlots

\* a trainer that has nothing to report
QuietTrainer ==
    /\ epoch = 0
    /\ plots = NoPlots
    /\ vplots = NoPlots
    /\ best_exists = FALSE
    /\ curves = <<>>
    /\ curves_results = <<>>
    /\ clock = 0

----------------------------------------------------------------------------
(* Inputs of a call of plot_curve_wandb / np.interp.                       *)

XVals == {Rat(0, 1), Rat(1, 4), Rat(1, 2), Rat(1, 1)}
YBits == {Rat(0, 1), Rat(1, 1)}
YVals == {Rat(0, 1), Rat(1, 2), Rat(1, 1)}
GVals == {Rat(-1, 4), Rat(0, 1), Rat(1, 8), Rat(1, 4), Rat(3, 8),
          Rat(1, 2), Rat(3, 4), Rat(1, 1), Rat(5, 4)}

RECURSIVE increasing(_)
increasing(S) ==
    IF S = {} THEN <<>>
    ELSE LET m == CHOOSE a \in S : \A b \in S : RLe(a, b)
         IN  <<m>> \o increasing(S \ {m})

\* the strictly increasing sequences of at most MaxLen values of XVals
XSeqs == {increasing(S) : S \in {T \in SUBSET XVals : Cardinality(T) <= MaxLen}}

ClassNames == <<"c1", "c2", "c3", "c4">>

DefaultTitle == <<"Precision Recall Curve", "Recall", "Precision">>

----------------------------------------------------------------------------
(* SpecCurve: one call of plot_curve_wandb on arbitrary arguments, with    *)
(* the integration enabled and a run active.                               *)

InitCurve ==
    /\ EnabledModule
    /\ QuietTrainer
    /\ run = "active"
    /\ sink = <<>>
    /\ xs \in XSeqs
    /\ \E c \in 1..MaxClasses :
          /\ ys \in [1..c -> [1..Len(xs) -> YBits]]
          /\ names \in {"None", SubSeq(ClassNames, 1, c)}
    /\ num_xs \in -1..MaxNumXs
    /\ only_mean \in BOOLEAN
    /\ grid = <<>>
    /\ pc = "call"
    /\ raised = "none"
    /\ xs_log = <<>> /\ ys_log = <<>> /\ classes = <<>>

\* the whole of plot_curve_wandb(xs, ys, names, num_xs=num_xs, only_mean=only_mean)
plot_curve_wandb ==
    /\ pc = "call"
    /\ LET cols == curve_columns(xs, ys, names, num_xs, only_mean)
       IN  /\ sink' = sink \o curve_log("precision-recall", DefaultTitle[1],
                                        DefaultTitle[2], DefaultTitle[3], cols)
           /\ raised' = cols.raised
           /\ pc' = IF cols.raised = "none" THEN "returned" ELSE "raised"
           /\ xs_log' = cols.xs_log
           /\ ys_log' = cols.ys_log
           /\ classes' = cols.classes
    /\ UNCHANGED <<importVars, trainerVars, processed_plots, run,
                   xs, ys, names, num_xs, only_mean, grid>>

NextCurve == plot_curve_wandb

SpecCurve == InitCurve /\ [][NextCurve]_vars

----------------------------------------------------------------------------
(* SpecInterp: one call of np.interp(grid, xs, ys[0]) as made on lines 81  *)
(* and 89, on an arbitrary curve and grid.                                 *)

InitInterp ==
    /\ EnabledModule
    /\ QuietTrainer
    /\ run = "active"
    /\ sink = <<>>
    /\ xs \in XSeqs
    /\ ys \in [1..1 -> [1..Len(xs) -> YVals]]
    /\ names = "None"
    /\ num_xs = 0
    /\ only_mean = TRUE
    /\ grid \in {<<>>} \cup {<<g>> : g \in GVals}
    /\ pc = "call"
    /\ raised = "none"
    /\ xs_log = <<>> /\ ys_log = <<>> /\ classes = <<>>

\* np.interp raises ValueError on an empty array of sample points
resample ==
    /\ pc = "call"
    /\ IF Len(xs) = 0
       THEN /\ raised' = "ValueError"
            /\ pc' = "raised"
            /\ UNCHANGED <<xs_log, ys_log>>
       ELSE /\ raised' = "none"
            /\ pc' = "returned"
            /\ xs_log' = grid
            /\ ys_log' = np_interp(grid, xs, ys[1])
    /\ UNCHANGED <<importVars, trainerVars, processed_plots, run, sink,
                   xs, ys, names, num_xs, only_mean, grid, classes>>

NextInterp == resample

SpecInterp == InitInterp /\ [][NextInterp]_vars

----------------------------------------------------------------------------
(* Claims about np.interp and plot_curve_wandb.                            *)

RMin(a, b) == IF RLe(a, b) THEN a ELSE b
RMax(a, b) == IF RLe(a, b) THEN b ELSE a

\* r is the value at g of the straight line through (x0, y0) and (x1, y1),
\* stated without division: (r - y0) * (x1 - x0) = (g - x0) * (y1 - y0)
OnLine(r, g, x0, y0, x1, y1) ==
    RMul(RSub(r, y0), RSub(x1, x0)) = RMul(RSub(g, x0), RSub(y1, y0))

Scenario1 ==
    np_interp(<<Rat(0, 1), Rat(1, 4), Rat(1, 2), Rat(3, 4), Rat(1, 1)>>,
              <<Rat(0, 1), Rat(1, 2), Rat(1, 1)>>,
              <<Rat(1, 1), Rat(4, 5), Rat(1, 5)>>)
      = <<Rat(1, 1), Rat(9, 10), Rat(4, 5), Rat(1, 2), Rat(1, 5)>>

\* C1: for a non-empty curve with strictly increasing x and a grid point g,
\* np.interp returns the first y when g is below the curve, the last y when g
\* is above it, and otherwise, for each pair of consecutive curve points that
\* brackets g, the point of the segment between them, which lies between the
\* two bracketing y-values; scenario 1 of the spec gives [1, 0.9, 0.8, 0.5, 0.2].
C1_Interp ==
    /\ Scenario1
    /\ (pc = "returned" /\ Len(grid) = 1) =>
          LET g == grid[1]
              r == ys_log[1]
              n == Len(xs)
              fp == ys[1]
          IN  /\ RLt(g, xs[1]) => r = fp[1]
              /\ RLt(xs[n], g) => r = fp[n]
              /\ \A j \in 1..(n - 1) :
                    (RLe(xs[j], g) /\ RLe(g, xs[j + 1])) =>
                       /\ OnLine(r, g, xs[j], fp[j], xs[j + 1], fp[j + 1])
                       /\ RLe(RMin(fp[j], fp[j + 1]), r)
                       /\ RLe(r, RMax(fp[j], fp[j + 1]))

\* a grid point strictly inside a sloped segment of a three-point curve, the
\* result strictly between the bracketing y-values
C1_Witness ==
    /\ pc = "returned" /\ Len(grid) = 1 /\ Len(xs) = 3
    /\ RLt(xs[2], grid[1]) /\ RLt(grid[1], xs[3])
    /\ ys[1][2] # ys[1][3]
    /\ RLt(RMin(ys[1][2], ys[1][3]), ys_log[1])
    /\ RLt(ys_log[1], RMax(ys[1][2], ys[1][3]))

\* the same, for a grid point outside the curve on either side
C1_WitnessClamp ==
    /\ pc = "returned" /\ Len(grid) = 1 /\ Len(xs) >= 2
    /\ RLt(xs[Len(xs)], grid[1])
    /\ ys[1][Len(xs)] # ys[1][Len(xs) - 1]

\* the rows a successful call is claimed to produce
ExpectedClasses ==
    repeat("mean", num_xs)
      \o (IF only_mean THEN <<>>
          ELSE concat([c \in 1..Len(ys) |-> repeat(ClassNames[c], num_xs)]))

ValidArgs == Len(xs) >= 1 /\ num_xs >= 0

\* the x-coordinates of block b of the output (block 0 is the mean curve)
Block(col, b) == SubSeq(col, b * num_xs + 1, (b + 1) * num_xs)

\* C2: a call with sampleCount N on C classes produces N rows labelled
\* "mean" and, iff only_mean is false, N further rows per class labelled with
\* the class's label; every curve carries the same N x-coordinates and the
\* three columns have one length.
C2_Rows ==
    (pc # "call" /\ ValidArgs) =>
        /\ pc = "returned"
        /\ classes = ExpectedClasses
        /\ Len(xs_log) = Len(classes) /\ Len(ys_log) = Len(classes)
        /\ \A b \in 1..(IF only_mean THEN 0 ELSE Len(ys)) :
              Block(xs_log, b) = Block(xs_log, 0)

\* the mean over the classes of each class's own resampled value at grid point k
MeanOfResampled(k) ==
    LET xs_new == Block(xs_log, 0)
    IN  RDiv(RSum([c \in 1..Len(ys) |-> np_interp(xs_new, xs, ys[c])[k]]),
             RInt(Len(ys)))

Scenario2 ==
    curve_columns(<<Rat(0, 1), Rat(1, 1)>>,
                  << <<Rat(1, 1), Rat(0, 1)>>, <<Rat(1, 2), Rat(1, 2)>> >>,
                  <<"A", "B">>, 3, FALSE).ys_log
      = <<Rat(3, 4), Rat(1, 2), Rat(1, 4),
          Rat(1, 1), Rat(1, 2), Rat(0, 1),
          Rat(1, 2), Rat(1, 2), Rat(1, 2)>>

\* C3: the y-value of the "mean" curve at each grid x is the arithmetic mean
\* over the classes of the class's resampled y-value at that x (which, when
\* the per-class rows are produced, is the y of the class's row at that x);
\* scenario 2 of the spec gives the mean curve [0.75, 0.5, 0.25].
C3_Mean ==
    /\ Scenario2
    /\ pc = "returned" =>
          \A k \in 1..num_xs :
             /\ ys_log[k] = MeanOfResampled(k)
             /\ ~only_mean =>
                   ys_log[k] = RDiv(RSum([c \in 1..Len(ys) |-> Block(ys_log, c)[k]]),
                                    RInt(Len(ys)))

\* two classes whose curves differ, resampled at a point strictly between two
\* curve points
C3_Witness ==
    /\ pc = "returned" /\ ~only_mean /\ Len(ys) = 2 /\ num_xs = 3 /\ Len(xs) = 3
    /\ ~(\E i \in 1..Len(xs) : xs[i] = xs_log[2])
    /\ Block(ys_log, 1)[2] # Block(ys_log, 2)[2]
    /\ ys_log[2] # Block(ys_log, 1)[2]

\* C4 as stated: with an empty curve or sampleCount <= 0 the call fails with
\* an error raised to the caller and nothing is produced or sent.
C4_Original ==
    (pc # "call" /\ (Len(xs) = 0 \/ num_xs <= 0)) =>
        /\ pc = "raised"
        /\ sink = <<>>

\* C4 amended: an empty xs raises IndexError (xs[0]) and a negative num_xs
\* raises ValueError (np.linspace), both before anything is sent; num_xs = 0
\* is not rejected: the call returns and sends a table of zero rows, unless
\* only_mean is false and names is missing, where names[0] raises IndexError.
C4_Amended ==
    pc # "call" =>
        /\ Len(xs) = 0 => (raised = "IndexError" /\ sink = <<>>)
        /\ (Len(xs) > 0 /\ num_xs < 0) => (raised = "ValueError" /\ sink = <<>>)
        /\ (Len(xs) > 0 /\ num_xs = 0) =>
              IF only_mean \/ names # "None"
              THEN /\ pc = "returned" /\ raised = "none"
                   /\ Len(sink) = 1
                   /\ sink[1].data.class = <<>>
                   /\ sink[1].data.x = <<>> /\ sink[1].data.y = <<>>
              ELSE raised = "IndexError" /\ sink = <<>>
        /\ pc = "raised" <=> raised # "none"

C4_Witness ==
    /\ pc = "returned" /\ num_xs = 0 /\ Len(xs) = 3
    /\ Len(sink) = 1 /\ sink[1].kind = "table" /\ sink[1].data.class = <<>>

C4_WitnessRaise == pc = "raised" /\ raised = "ValueError" /\ Len(xs) = 3

\* C5 as stated: a call leaves the sink as it was.
C5_Original == [][(pc = "call" /\ pc' # "call") => sink' = sink]_vars

\* C5 amended: a call that returns has made exactly one call to the sink,
\* wb.log without a step, carrying the table of its rows (rounded to three
\* decimals) under the given id; a call that raises has sent nothing; the
\* run and _processed_plots are as before.
C5_Amended ==
    /\ pc = "call" => sink = <<>>
    /\ pc = "raised" => sink = <<>>
    /\ pc = "returned" =>
          /\ Len(sink) = 1
          /\ sink[1].call = "wb.log" /\ sink[1].kind = "table"
          /\ sink[1].key = "precision-recall" /\ sink[1].step = NoStep
          /\ sink[1].data.class = classes
          /\ sink[1].data.x = [k \in 1..Len(xs_log) |-> round3(xs_log[k])]
          /\ sink[1].data.y = [k \in 1..Len(ys_log) |-> round3(ys_log[k])]
    /\ run = "active" /\ processed_plots = NoPlots

C5_Witness ==
    /\ pc = "returned" /\ Len(sink) = 1 /\ Len(sink[1].data.class) = 6
    /\ \E k \in 1..Len(xs_log) : sink[1].data.y[k] # ys_log[k]

\* the successive differences of a sequence of numbers
Diffs(g) == [k \in 1..(Len(g) - 1) |-> RSub(g[k + 1], g[k])]

\* C6 as stated: for every N >= 1 the grid runs from xs[0] to xs[-1] in
\* steps of one size.
C6_Original ==
    (pc = "returned" /\ num_xs >= 1) =>
        LET g == Block(xs_log, 0)
        IN  /\ Len(g) = num_xs
            /\ g[1] = xs[1]
            /\ g[num_xs] = xs[Len(xs)]
            /\ \A k \in 1..(num_xs - 1) : Diffs(g)[k] = Diffs(g)[1]

\* C6 amended: for N >= 2 the grid is N points from xs[0] to xs[-1] in steps
\* of (xs[-1] - xs[0]) / (N - 1); for N = 1 it is the single point xs[0].
C6_Amended ==
    pc = "returned" =>
        LET g == Block(xs_log, 0)
        IN  /\ Len(g) = num_xs
            /\ num_xs >= 2 =>
                  /\ g[1] = xs[1]
                  /\ g[num_xs] = xs[Len(xs)]
                  /\ \A k \in 1..(num_xs - 1) :
                        Diffs(g)[k] = RDiv(RSub(xs[Len(xs)], xs[1]), RInt(num_xs - 1))
            /\ num_xs = 1 => g = <<xs[1]>>

C6_Witness ==
    /\ pc = "returned" /\ num_xs = 3 /\ Len(xs) = 3
    /\ xs[1] # Rat(0, 1)
    /\ Block(xs_log, 0)[2] # xs[2]

C6_WitnessOne == pc = "returned" /\ num_xs = 1 /\ Len(xs) = 2

----------------------------------------------------------------------------
(* Spec: the callbacks under the trainer's events.                         *)
(*                                                                         *)
(* The trainer runs the handlers the table holds for an event.  It runs    *)
(* on_pretrain_routine_start before the epoch events of a training, so a   *)
(* handler that uses wb.run is taken only while a run is active (on        *)
(* wb.run = None its first statement raises AttributeError and nothing is  *)
(* sent).  wb.run.finish() ends the run and leaves wb.run = None.  The     *)
(* plot dictionaries are walked in the order of PlotNames.                 *)

PlotStems == <<"results">>

\* _log_plots(plots, step) from entry i on; st = [sink, processed]
RECURSIVE log_plots_from(_, _, _, _)
log_plots_from(i, d, step, st) ==
    IF i > Len(PlotNames) THEN st
    ELSE LET timestamp == d[i]
         IN  IF timestamp # 0 /\ st.processed[i] # timestamp
             THEN log_plots_from(i + 1, d, step,
                     [st EXCEPT
                        !.sink = Append(@, Entry("wb.run.log", "image", PlotStems[i],
                                                 step, timestamp)),
                        !.processed = [@ EXCEPT ![i] = timestamp]])
             ELSE log_plots_from(i + 1, d, step, st)

\* _log_plots logging under the epoch instead of the step it is given
log_plots_epoch_step(d, step, st) == log_plots_from(1, d, step - 1, st)

log_plots(d, step, st) == log_plots_from(1, d, step, st)

\* wb.run.log(payload, step=step)
run_log(kind, step, st) ==
    [st EXCEPT !.sink = Append(@, Entry("wb.run.log", kind, kind, step, 0))]

\* the curves the validator of this model reports: name, xs, ys and the
\* two axis titles, xs and ys as in CurveInputs
CurveNames == <<"Precision-Recall(B)", "F1-Confidence(B)", "Precision-Confidence(B)">>

CurveInputs ==
    << [xs |-> <<Rat(0, 1), Rat(1, 2), Rat(1, 1)>>,
        ys |-> << <<Rat(1, 1), Rat(4, 5), Rat(1, 5)>>,
                  <<Rat(1, 1), Rat(1, 2), Rat(0, 1)>> >>,
        x_axis_title |-> "Recall", y_axis_title |-> "Precision"],
       [xs |-> <<Rat(0, 1), Rat(1, 1)>>,
        ys |-> << <<Rat(0, 1), Rat(1, 2)>> >>,
        x_axis_title |-> "Confidence", y_axis_title |-> "F1"],
       [xs |-> <<Rat(0, 1), Rat(1, 4), Rat(1, 1)>>,
        ys |-> << <<Rat(1, 2), Rat(1, 1), Rat(1, 1)>> >>,
        x_axis_title |-> "Confidence", y_axis_title |-> "Precision"] >>

\* curve_columns(xs, ys, names=None, num_xs=100, only_mean=True), the call
\* on_train_end makes, tabulated over the curves of this model
default_columns ==
    [c \in {CurveInputs[i] : i \in 1..Len(CurveInputs)} |->
        curve_columns(c.xs, c.ys, "None", NumXsDefault, TRUE)]

\* zip(a, b)
zip(a, b) == [i \in 1..Min(Len(a), Len(b)) |-> <<a[i], b[i]>>]

\* the loop of on_train_end (lines 145-154) from pair i on; a call of
\* plot_curve_wandb that raises ends the handler
RECURSIVE log_curves_from(_, _, _)
log_curves_from(i, pairs, st) ==
    IF i > Len(pairs) THEN st
    ELSE LET curve_name   == pairs[i][1]
             curve_values == pairs[i][2]
             cols == default_columns[curve_values]
         IN  IF cols.raised # "none" THEN [st EXCEPT !.raised = cols.raised]
             ELSE log_curves_from(i + 1, pairs,
                     [st EXCEPT !.sink = @ \o curve_log(<<"curves", curve_name>>,
                                                        curve_name,
                                                        curve_values.x_axis_title,
                                                        curve_values.y_axis_title,
                                                        cols)])

InitTrainer ==
    /\ epoch = 0
    /\ plots = NoPlots
    /\ vplots = NoPlots
    /\ best_exists = FALSE
    /\ curves = <<>>
    /\ curves_results = <<>>
    /\ clock = 0

Init ==
    /\ TESTS_RUNNING \in BOOLEAN
    /\ settings_wandb \in {"True", "False", "1"}
    /\ wandb_pkg \in {"missing", "directory", "package"}
    /\ deps_ok \in BOOLEAN
    /\ wb = import_guard(TESTS_RUNNING, settings_wandb, wandb_pkg, deps_ok)
    /\ callbacks = callbacks_table(wb)
    /\ processed_plots = NoPlots
    /\ run = "None"
    /\ sink = <<>>
    /\ InitTrainer
    /\ xs = <<>> /\ ys = <<>> /\ names = "None" /\ num_xs = 0 /\ only_mean = TRUE
    /\ grid = <<>> /\ pc = "idle" /\ raised = "none"
    /\ xs_log = <<>> /\ ys_log = <<>> /\ classes = <<>>

\* the state a handler works on
Now == [sink |-> sink, processed |-> processed_plots, raised |-> "none"]

\* what a handler leaves behind
Leave(st) ==
    /\ sink' = st.sink
    /\ processed_plots' = st.processed

Handles(e) == e \in callbacks /\ Len(sink) < MaxSink

\* wb.run or wb.init(project=..., name=..., config=...)
on_pretrain_routine_start ==
    /\ Handles("on_pretrain_routine_start")
    /\ IF run = "None"
       THEN /\ run' = "active"
            /\ sink' = Append(sink, Entry("wb.init", "init", "project", NoStep, 0))
       ELSE UNCHANGED <<run, sink>>
    /\ UNCHANGED <<importVars, processed_plots, trainerVars, callVars>>

on_fit_epoch_end ==
    /\ Handles("on_fit_epoch_end")
    /\ run = "active"
    /\ LET s1 == run_log("metrics", epoch + 1, Now)
           s2 == log_plots(plots, epoch + 1, s1)
           s3 == log_plots(vplots, epoch + 1, s2)
           s4 == IF epoch = 0 THEN run_log("model_info", epoch + 1, s3) ELSE s3
       IN  \E st \in {s4} : Leave(st)
    /\ UNCHANGED <<importVars, run, trainerVars, callVars>>

on_train_epoch_end ==
    /\ Handles("on_train_epoch_end")
    /\ run = "active"
    /\ LET s1 == run_log("train_loss", epoch + 1, Now)
           s2 == run_log("lr", epoch + 1, s1)
           s3 == IF epoch = 1 THEN log_plots(plots, epoch + 1, s2) ELSE s2
       IN  \E st \in {s3} : Leave(st)
    /\ UNCHANGED <<importVars, run, trainerVars, callVars>>

\* on_train_end with wb.run.finish() moved before the curve loop
train_end_finish_first(best, names_, results, st) ==
    LET s1 == log_plots(vplots, epoch + 1, st)
        s2 == log_plots(plots, epoch + 1, s1)
        s3 == IF best
              THEN [s2 EXCEPT !.sink = Append(@, Entry("wb.run.log_artifact", "artifact",
                                                       "run_model", NoStep, "best"))]
              ELSE s2
        s4 == [s3 EXCEPT !.sink = Append(@, Entry("wb.run.finish", "finish", "run",
                                                  NoStep, 0))]
    IN  log_curves_from(1, zip(names_, results), s4)

\* the body of on_train_end on the state st, for a trainer whose best
\* checkpoint exists or not (best) and whose validator reports the curves
\* names with the values results
train_end(best, names_, results, st) ==
    LET s1 == log_plots(vplots, epoch + 1, st)
        s2 == log_plots(plots, epoch + 1, s1)
        s3 == IF best
              THEN [s2 EXCEPT !.sink = Append(@, Entry("wb.run.log_artifact", "artifact",
                                                       "run_model", NoStep, "best"))]
              ELSE s2
        s4 == log_curves_from(1, zip(names_, results), s3)
    IN  IF s4.raised # "none" THEN s4
        ELSE [s4 EXCEPT !.sink = Append(@, Entry("wb.run.finish", "finish", "run",
                                                 NoStep, 0))]

\* on_train_end(trainer); best_exists, curves and curves_results keep what
\* the handler read from the trainer
on_train_end ==
    /\ Handles("on_train_end")
    /\ run = "active"
    /\ \E best \in BOOLEAN, n \in 0..MaxCurves :
          /\ best_exists' = best
          /\ curves' = SubSeq(CurveNames, 1, n)
          /\ curves_results' = SubSeq(CurveInputs, 1, n)
          /\ \E st \in {train_end(best, SubSeq(CurveNames, 1, n),
                                  SubSeq(CurveInputs, 1, n), Now)} :
                /\ Leave(st)
                /\ run' = IF st.raised = "none" THEN "None" ELSE run
    /\ UNCHANGED <<importVars, epoch, plots, vplots, clock, callVars>>

\* the trainer starts the next epoch
next_epoch ==
    /\ Len(sink) < MaxSink
    /\ epoch < MaxEpoch
    /\ epoch' = epoch + 1
    /\ UNCHANGED <<importVars, processed_plots, run, sink, plots, vplots,
                   best_exists, curves, curves_results, clock, callVars>>

\* the trainer (on_plot) records plot i under the current time
trainer_on_plot(i) ==
    /\ Len(sink) < MaxSink
    /\ clock < MaxTs
    /\ clock' = clock + 1
    /\ plots' = [plots EXCEPT ![i] = clock']
    /\ UNCHANGED <<importVars, processed_plots, run, sink, epoch, vplots,
                   best_exists, curves, curves_results, callVars>>

\* the validator (on_plot) records plot i under the current time
validator_on_plot(i) ==
    /\ Len(sink) < MaxSink
    /\ clock < MaxTs
    /\ clock' = clock + 1
    /\ vplots' = [vplots EXCEPT ![i] = clock']
    /\ UNCHANGED <<importVars, processed_plots, run, sink, epoch, plots,
                   best_exists, curves, curves_results, callVars>>

Next ==
    \/ on_pretrain_routine_start
    \/ on_fit_epoch_end
    \/ on_train_epoch_end
    \/ on_train_end
    \/ next_epoch
    \/ \E i \in 1..Len(PlotNames) : trainer_on_plot(i)
    \/ \E i \in 1..Len(PlotNames) : validator_on_plot(i)

Spec == Init /\ [][Next]_vars

----------------------------------------------------------------------------
(* Claims about the callbacks.                                             *)

\* the calls a step added to the sink
Added == SubSeq(sink', Len(sink) + 1, Len(sink'))

\* the positions of the calls of one kind in a sequence of calls
Of(kind, calls) == {i \in 1..Len(calls) : calls[i].kind = kind}

\* the calls of one kind, in order
RECURSIVE Only(_, _)
Only(kind, calls) ==
    IF calls = <<>> THEN <<>>
    ELSE (IF Head(calls).kind = kind THEN <<Head(calls)>> ELSE <<>>)
            \o Only(kind, Tail(calls))

\* C7: _log_plots sends a plot only if it has not been logged already: no
\* (plot name, timestamp) pair is sent to the sink twice.
C7_Original ==
    \A i, j \in Of("image", sink) :
        (i < j) => ~(sink[i].key = sink[j].key /\ sink[i].data = sink[j].data)

\* C8: when tests are running, SETTINGS['wandb'] is not True or wandb is
\* missing or not a real package, the callbacks table is empty and no call
\* reaches the sink, whatever the trainer does; when the integration is
\* enabled (wb is set) the table holds exactly the four events.
C8_Table ==
    /\ (TESTS_RUNNING \/ settings_wandb # "True" \/ wandb_pkg # "package") =>
          (wb = "None" /\ callbacks = {} /\ sink = <<>>)
    /\ wb = "None" => (callbacks = {} /\ sink = <<>>)
    /\ wb # "None" =>
          /\ callbacks = {"on_pretrain_routine_start", "on_train_epoch_end",
                          "on_fit_epoch_end", "on_train_end"}
          /\ Cardinality(callbacks) = 4

\* a trainer that has reached its last epoch and recorded plots with a
\* truthy setting that is not True: nothing was sent
C8_Witness ==
    /\ settings_wandb = "1" /\ ~TESTS_RUNNING /\ wandb_pkg = "package" /\ deps_ok
    /\ epoch > 0 /\ plots # NoPlots /\ vplots # NoPlots
    /\ sink = <<>>

C8_WitnessEnabled == wb = "wandb" /\ Len(sink) >= 4

Stepped(calls) == {i \in 1..Len(calls) : calls[i].step # NoStep}

\* C10: every stepped log call of the three handlers carries step =
\* trainer.epoch + 1, so with an epoch that never decreases the steps sent to
\* the sink never decrease; model info is logged only by on_fit_epoch_end at
\* epoch 0.
C10_Steps ==
    [][/\ \A i \in Stepped(Added) : Added[i].step = epoch + 1
       /\ \A i, j \in Stepped(sink') : (i < j) => sink'[i].step <= sink'[j].step
       /\ Of("model_info", Added) # {} => (on_fit_epoch_end /\ epoch = 0)
       /\ (on_fit_epoch_end /\ epoch = 0) => Cardinality(Of("model_info", Added)) = 1
       /\ \A i \in 1..Len(Added) :
             Added[i].kind \in {"metrics", "train_loss", "lr", "model_info", "image"}
                <=> Added[i].step # NoStep]_vars

\* model info at step 1, then the learning rates of the next epoch at step 2
C10_Witness ==
    \E i, j \in 1..Len(sink) :
        /\ i < j
        /\ sink[i].kind = "model_info" /\ sink[i].step = 1
        /\ sink[j].kind = "lr" /\ sink[j].step = 2

C10_WitnessImage ==
    \E i, j \in Of("image", sink) : sink[i].step = 1 /\ sink[j].step = 2

====
